---- MODULE Spec2Model ----
(***************************************************************************)
(* The LS-8 emulator of src/cpu.py driven by src/ls8.py: a CPU object with *)
(* 256 memory cells, eight registers, a program counter and a flags        *)
(* register, a loader, and the fetch/dispatch/post-step loop of CPU.run.   *)
(* Memory cells and registers hold Python integers (nothing in the code    *)
(* masks them to a byte), list indexing follows Python (a negative index   *)
(* counts from the end, an index outside the list raises IndexError), and  *)
(* an uncaught exception ends the process.                                 *)
(***************************************************************************)
EXTENDS Integers, Sequences, FiniteSets, TLC

(* ------------------------------ constants ------------------------------ *)
SP == 7
IS == 6
IM == 5
NOP == 0
HLT == 1
RET == 17
CALL == 80
JMP == 84
JEQ == 85
JNE == 86
PUSH == 69
POP == 70
PRA == 72
PRN == 71
LDI == 130
LD == 131
ST == 132
INC == 101
DEC == 102
ADD == 160
SUB == 161
AND == 168
OR == 170
XOR == 171
NOT == 105
SHL == 172
SHR == 173
CMP == 167
MUL == 162

\* len(self.ram) and len(self.reg)
RamSize == 256
RegCount == 8
\* reg[SP] after construction (0xF4)
InitSP == 244
\* the flag encodings written by handle_cmp
FL_E == 1
FL_G == 2
FL_L == 4
\* chr() raises ValueError outside 0..0x10FFFF
MaxCodePoint == 1114111

\* the keys of self.branchtable
branchtable ==
    {NOP, HLT, RET, CALL, JMP, JEQ, JNE, PUSH, POP, PRA, PRN, LDI, LD, ST,
     INC, DEC, ADD, SUB, AND, OR, XOR, NOT, SHL, SHR, MUL, CMP}

(* ------------------------------- bounds -------------------------------- *)
\* instructions executed per run
MaxSteps == 7
\* registers and memory cells of the explored runs stay within -RegLimit..RegLimit
RegLimit == 4096
\* executed instructions remembered in hist
HistLen == 4

(* ------------------------------- state --------------------------------- *)
VARIABLES
    ram,      \* self.ram: cell index 0..255 -> integer
    reg,      \* self.reg: register index 0..7 -> integer
    pc,       \* self.pc
    fl,       \* self.fl
    ir,       \* self.ir
    running,  \* self.running
    out,      \* what was printed, in order
    exc,      \* how the process is ending: "none", "SystemExit1", "SystemExit2",
              \* or the uncaught exception
    phase,    \* position of ls8.py: "init", "loaded", "run"
    acc,      \* the indices the last executed step passed to self.ram[...]
    hist,     \* the last HistLen executed instructions, as seen when fetched
    steps     \* instructions fetched so far

vars == <<ram, reg, pc, fl, ir, running, out, exc, phase, acc, hist, steps>>

(* --------------------------- Python list access ------------------------ *)
\* self.ram[i] raises IndexError unless -256 <= i <= 255
InRam(i) == -RamSize <= i /\ i < RamSize
\* self.reg[i] raises IndexError unless -8 <= i <= 7
InReg(i) == -RegCount <= i /\ i < RegCount
\* the cell a valid index denotes (a negative index counts from the end)
Cell(i) == IF i < 0 THEN i + RamSize ELSE i
Slot(i) == IF i < 0 THEN i + RegCount ELSE i

\* the machine as one record, the form the handlers work on
Machine ==
    [ram |-> ram, reg |-> reg, pc |-> pc, fl |-> fl, running |-> running,
     out |-> out, exc |-> "none", acc |-> {}]

Raise(m, e) == [m EXCEPT !.exc = e]

\* an index is handed to self.ram[...]: it is recorded, and it raises when out of range
Access(m, i) ==
    IF m.exc # "none" THEN m
    ELSE IF InRam(i) THEN [m EXCEPT !.acc = @ \cup {i}]
    ELSE [m EXCEPT !.acc = @ \cup {i}, !.exc = "IndexError"]

ram_read(m, i) == m.ram[Cell(i)]

ram_write(m, i, v) == [m EXCEPT !.ram[Cell(i)] = v]

(* ------------------------------ handlers ------------------------------- *)
handle_nop(m) == m

\* HLT that does not stop the loop
handle_hlt_keeps_running(m) == m

handle_hlt(m) == [m EXCEPT !.running = FALSE]

\* RET that jumps to the popped value without allowing for the post-step
handle_ret_no_compensation(m) ==
    LET a == Access(m, m.reg[SP])
    IN  IF a.exc # "none" THEN a
        ELSE LET register == ram_read(m, m.reg[SP])
             IN  [a EXCEPT !.reg[SP] = @ + 1, !.pc = register]

handle_ret(m) ==
    LET a == Access(m, m.reg[SP])
    IN  IF a.exc # "none" THEN a
        ELSE LET register == ram_read(m, m.reg[SP])
             IN  [a EXCEPT !.reg[SP] = @ + 1, !.pc = register - 1]

handle_call(m) ==
    LET a == Access(m, m.pc + 1)
    IN  IF a.exc # "none" THEN a
        ELSE IF ~InReg(ram_read(m, m.pc + 1)) THEN Raise(a, "IndexError")
        ELSE LET reg_a == m.reg[Slot(ram_read(m, m.pc + 1))]
                 b == [a EXCEPT !.reg[SP] = @ - 1]
                 c == Access(b, b.reg[SP])
             IN  IF c.exc # "none" THEN c
                 ELSE [ram_write(c, c.reg[SP], m.pc + 2) EXCEPT !.pc = reg_a]

\* JMP that sets pc to the target itself, as handle_call does
handle_jmp_no_compensation(m) ==
    LET a == Access(m, m.pc + 1)
    IN  IF a.exc # "none" THEN a
        ELSE IF ~InReg(ram_read(m, m.pc + 1)) THEN Raise(a, "IndexError")
        ELSE LET reg_a == m.reg[Slot(ram_read(m, m.pc + 1))]
             IN  [a EXCEPT !.pc = reg_a]

handle_jmp(m) ==
    LET a == Access(m, m.pc + 1)
    IN  IF a.exc # "none" THEN a
        ELSE IF ~InReg(ram_read(m, m.pc + 1)) THEN Raise(a, "IndexError")
        ELSE LET reg_a == m.reg[Slot(ram_read(m, m.pc + 1))]
             IN  [a EXCEPT !.pc = reg_a - 1]

handle_jeq(m) ==
    LET a == Access(m, m.pc + 1)
    IN  IF a.exc # "none" THEN a
        ELSE IF ~InReg(ram_read(m, m.pc + 1)) THEN Raise(a, "IndexError")
        ELSE LET reg_a == m.reg[Slot(ram_read(m, m.pc + 1))]
             IN  IF m.fl = 1 THEN [a EXCEPT !.pc = reg_a - 1]
                 ELSE [a EXCEPT !.pc = @ + 1]

\* JNE that jumps whenever the flags differ from Equal, also before any CMP
handle_jne_not_equal(m) ==
    LET a == Access(m, m.pc + 1)
    IN  IF a.exc # "none" THEN a
        ELSE IF ~InReg(ram_read(m, m.pc + 1)) THEN Raise(a, "IndexError")
        ELSE LET reg_a == m.reg[Slot(ram_read(m, m.pc + 1))]
             IN  IF m.fl # 1 THEN [a EXCEPT !.pc = reg_a - 1]
                 ELSE [a EXCEPT !.pc = @ + 1]

handle_jne(m) ==
    LET a == Access(m, m.pc + 1)
    IN  IF a.exc # "none" THEN a
        ELSE IF ~InReg(ram_read(m, m.pc + 1)) THEN Raise(a, "IndexError")
        ELSE LET reg_a == m.reg[Slot(ram_read(m, m.pc + 1))]
             IN  IF m.fl > 1 THEN [a EXCEPT !.pc = reg_a - 1]
                 ELSE [a EXCEPT !.pc = @ + 1]

\* PUSH that writes at the stack pointer and decrements it afterwards
handle_push_decrement_last(m) ==
    LET a == Access(m, m.pc + 1)
    IN  IF a.exc # "none" THEN a
        ELSE LET register == ram_read(m, m.pc + 1)
             IN  IF ~InReg(register) THEN Raise(a, "IndexError")
                 ELSE LET val == m.reg[Slot(register)]
                          c == Access(a, a.reg[SP])
                      IN  IF c.exc # "none" THEN c
                          ELSE [ram_write(c, c.reg[SP], val)
                                    EXCEPT !.reg[SP] = @ - 1, !.pc = @ + 1]


handle_push(m) ==
    LET a == Access(m, m.pc + 1)
    IN  IF a.exc # "none" THEN a
        ELSE LET register == ram_read(m, m.pc + 1)
             IN  IF ~InReg(register) THEN Raise(a, "IndexError")
                 ELSE LET val == m.reg[Slot(register)]
                          b == [a EXCEPT !.reg[SP] = @ - 1]
                          c == Access(b, b.reg[SP])
                      IN  IF c.exc # "none" THEN c
                          ELSE [ram_write(c, c.reg[SP], val) EXCEPT !.pc = @ + 1]

\* POP that increments the stack pointer before it reads
handle_pop_increment_first(m) ==
    LET a == Access(m, m.pc + 1)
        b == Access(a, m.reg[SP] + 1)
    IN  IF b.exc # "none" THEN b
        ELSE LET register == ram_read(m, m.pc + 1)
                 val == ram_read(m, m.reg[SP] + 1)
             IN  IF ~InReg(register) THEN Raise(b, "IndexError")
                 ELSE LET c == [b EXCEPT !.reg[Slot(register)] = val]
                      IN  [c EXCEPT !.reg[SP] = @ + 1, !.pc = @ + 1]

handle_pop(m) ==
    LET a == Access(m, m.pc + 1)
        b == Access(a, m.reg[SP])
    IN  IF b.exc # "none" THEN b
        ELSE LET register == ram_read(m, m.pc + 1)
                 val == ram_read(m, m.reg[SP])
             IN  IF ~InReg(register) THEN Raise(b, "IndexError")
                 ELSE LET c == [b EXCEPT !.reg[Slot(register)] = val]
                      IN  [c EXCEPT !.reg[SP] = @ + 1, !.pc = @ + 1]

handle_pra(m) ==
    LET a == Access(m, m.pc + 1)
    IN  IF a.exc # "none" THEN a
        ELSE LET reg_a == ram_read(m, m.pc + 1)
             IN  IF ~InReg(reg_a) THEN Raise(a, "IndexError")
                 ELSE IF ~(0 <= m.reg[Slot(reg_a)] /\ m.reg[Slot(reg_a)] <= MaxCodePoint)
                      THEN Raise(a, "ValueError")
                 ELSE [a EXCEPT !.out = Append(@, <<"chr", m.reg[Slot(reg_a)]>>),
                                !.pc = @ + 1]

handle_prn(m) ==
    LET a == Access(m, m.pc + 1)
    IN  IF a.exc # "none" THEN a
        ELSE LET reg_a == ram_read(m, m.pc + 1)
             IN  IF ~InReg(reg_a) THEN Raise(a, "IndexError")
                 ELSE [a EXCEPT !.out = Append(@, <<"int", m.reg[Slot(reg_a)]>>),
                                !.pc = @ + 1]

handle_ldi(m) ==
    LET a == Access(m, m.pc + 1)
        b == Access(a, m.pc + 2)
    IN  IF b.exc # "none" THEN b
        ELSE LET reg_a == ram_read(m, m.pc + 1)
                 val == ram_read(m, m.pc + 2)
             IN  IF ~InReg(reg_a) THEN Raise(b, "IndexError")
                 ELSE [b EXCEPT !.reg[Slot(reg_a)] = val, !.pc = @ + 2]

\* LD that loads from the memory address held in the second register
handle_ld_dereferences(m) ==
    LET a == Access(m, m.pc + 1)
        b == Access(a, m.pc + 2)
    IN  IF b.exc # "none" THEN b
        ELSE LET reg_a == ram_read(m, m.pc + 1)
                 reg_b == ram_read(m, m.pc + 2)
             IN  IF ~InReg(reg_a) \/ ~InReg(reg_b) THEN Raise(b, "IndexError")
                 ELSE LET c == Access(b, m.reg[Slot(reg_b)])
                      IN  IF c.exc # "none" THEN c
                          ELSE [c EXCEPT !.reg[Slot(reg_a)] = ram_read(m, m.reg[Slot(reg_b)]),
                                         !.pc = @ + 2]


handle_ld(m) ==
    LET a == Access(m, m.pc + 1)
        b == Access(a, m.pc + 2)
    IN  IF b.exc # "none" THEN b
        ELSE LET reg_a == ram_read(m, m.pc + 1)
                 val == ram_read(m, m.pc + 2)
             IN  IF ~InReg(reg_a) THEN Raise(b, "IndexError")
                 ELSE [b EXCEPT !.reg[Slot(reg_a)] = val, !.pc = @ + 2]

\* ST that stores the second register at the memory address held in the first
handle_st_writes_memory(m) ==
    LET a == Access(m, m.pc + 1)
        b == Access(a, m.pc + 2)
    IN  IF b.exc # "none" THEN b
        ELSE LET reg_a == ram_read(m, m.pc + 1)
                 reg_b == ram_read(m, m.pc + 2)
             IN  IF ~InReg(reg_a) \/ ~InReg(reg_b) THEN Raise(b, "IndexError")
                 ELSE LET c == Access(b, m.reg[Slot(reg_a)])
                      IN  IF c.exc # "none" THEN c
                          ELSE [ram_write(c, m.reg[Slot(reg_a)], m.reg[Slot(reg_b)])
                                    EXCEPT !.pc = @ + 2]


handle_st(m) ==
    LET a == Access(m, m.pc + 1)
        b == Access(a, m.pc + 2)
    IN  IF b.exc # "none" THEN b
        ELSE LET reg_a == ram_read(m, m.pc + 1)
             IN  IF ~InReg(ram_read(m, m.pc + 2)) THEN Raise(b, "IndexError")
                 ELSE LET val == m.reg[Slot(ram_read(m, m.pc + 2))]
                      IN  IF ~InReg(reg_a) THEN Raise(b, "IndexError")
                          ELSE [b EXCEPT !.reg[Slot(reg_a)] = val, !.pc = @ + 2]

(* -------------------------------- ALU ---------------------------------- *)
\* Python's & | ^ on integers of either sign (two's complement, unbounded)
RECURSIVE BitAnd(_, _)
BitAnd(x, y) ==
    IF x = 0 \/ y = 0 THEN 0
    ELSE IF x = -1 THEN y
    ELSE IF y = -1 THEN x
    ELSE (x % 2) * (y % 2) + 2 * BitAnd(x \div 2, y \div 2)

RECURSIVE BitOr(_, _)
BitOr(x, y) ==
    IF x = 0 THEN y
    ELSE IF y = 0 THEN x
    ELSE IF x = -1 \/ y = -1 THEN -1
    ELSE (IF x % 2 = 1 \/ y % 2 = 1 THEN 1 ELSE 0) + 2 * BitOr(x \div 2, y \div 2)

RECURSIVE BitXor(_, _)
BitXor(x, y) ==
    IF x = 0 THEN y
    ELSE IF y = 0 THEN x
    ELSE IF x = -1 /\ y = -1 THEN 0
    ELSE (IF x % 2 = y % 2 THEN 0 ELSE 1) + 2 * BitXor(x \div 2, y \div 2)

\* x << k for k >= 0. The doubling stops once the value has left
\* -RegLimit..RegLimit: such a result lies outside the explored runs (InModel).
RECURSIVE ShiftLeft(_, _)
ShiftLeft(x, k) ==
    IF k = 0 \/ x = 0 \/ x > RegLimit \/ x < -RegLimit THEN x
    ELSE ShiftLeft(2 * x, k - 1)

\* x >> k for k >= 0: floor(x / 2^k)
RECURSIVE ShiftRight(_, _)
ShiftRight(x, k) ==
    IF k = 0 \/ x = 0 \/ x = -1 THEN x
    ELSE ShiftRight(x \div 2, k - 1)

\* reg_a and reg_b are the operand bytes; reg_b is "None" for INC and DEC
alu(m, op, reg_a, reg_b) ==
    IF op \in {ADD, SUB, MUL, SHL, SHR}
    THEN IF ~InReg(reg_a) \/ ~InReg(reg_b) THEN Raise(m, "IndexError")
         ELSE LET x == m.reg[Slot(reg_a)]
                  y == m.reg[Slot(reg_b)]
              IN  IF op = ADD THEN [m EXCEPT !.reg[Slot(reg_a)] = x + y]
                  ELSE IF op = SUB THEN [m EXCEPT !.reg[Slot(reg_a)] = x - y]
                  ELSE IF op = MUL THEN [m EXCEPT !.reg[Slot(reg_a)] = x * y]
                  ELSE IF y < 0 THEN Raise(m, "ValueError")
                  ELSE IF op = SHL THEN [m EXCEPT !.reg[Slot(reg_a)] = ShiftLeft(x, y)]
                  ELSE [m EXCEPT !.reg[Slot(reg_a)] = ShiftRight(x, y)]
    ELSE IF op \in {INC, DEC, NOT}
    THEN IF ~InReg(reg_a) THEN Raise(m, "IndexError")
         ELSE IF op = INC THEN [m EXCEPT !.reg[Slot(reg_a)] = @ + 1]
         ELSE IF op = DEC THEN [m EXCEPT !.reg[Slot(reg_a)] = @ - 1]
         ELSE [m EXCEPT !.reg[Slot(reg_a)] = 255 - @]
    ELSE IF op \in {AND, OR, XOR}
    THEN IF ~InReg(reg_b) \/ ~InReg(reg_a) THEN Raise(m, "IndexError")
         ELSE LET y == m.reg[Slot(reg_b)]
              IN  IF op = AND THEN [m EXCEPT !.reg[Slot(reg_a)] = BitAnd(y, y)]
                  ELSE IF op = OR THEN [m EXCEPT !.reg[Slot(reg_a)] = BitOr(y, y)]
                  ELSE [m EXCEPT !.reg[Slot(reg_a)] = BitXor(y, y)]
    ELSE Raise(m, "Exception")

\* the shape shared by the handlers of one-operand ALU instructions
AluOne(m, op) ==
    LET a == Access(m, m.pc + 1)
    IN  IF a.exc # "none" THEN a
        ELSE LET r == alu(a, op, ram_read(m, m.pc + 1), "None")
             IN  IF r.exc # "none" THEN r ELSE [r EXCEPT !.pc = @ + 1]

\* the shape shared by the handlers of two-operand ALU instructions
AluTwo(m, op) ==
    LET a == Access(m, m.pc + 1)
        b == Access(a, m.pc + 2)
    IN  IF b.exc # "none" THEN b
        ELSE LET r == alu(b, op, ram_read(m, m.pc + 1), ram_read(m, m.pc + 2))
             IN  IF r.exc # "none" THEN r ELSE [r EXCEPT !.pc = @ + 2]

\* INC that reduces its result to a byte
handle_inc_wraps(m) ==
    LET r == AluOne(m, INC)
    IN  IF r.exc # "none" THEN r
        ELSE [r EXCEPT !.reg[Slot(ram_read(m, m.pc + 1))] = @ % RamSize]


handle_inc(m) == AluOne(m, INC)
\* DEC that raises the Equal flag when the result is zero
handle_dec_sets_flags(m) ==
    LET r == AluOne(m, DEC)
    IN  IF r.exc # "none" THEN r
        ELSE IF r.reg[Slot(ram_read(m, m.pc + 1))] = 0 THEN [r EXCEPT !.fl = FL_E]
        ELSE r

handle_dec(m) == AluOne(m, DEC)
handle_add(m) == AluTwo(m, ADD)
handle_sub(m) == AluTwo(m, SUB)

\* AND of the destination register with the source register
handle_and_both_registers(m) ==
    LET r == AluTwo(m, AND)
    IN  IF r.exc # "none" THEN r
        ELSE [r EXCEPT !.reg[Slot(ram_read(m, m.pc + 1))] =
                  BitAnd(m.reg[Slot(ram_read(m, m.pc + 1))],
                         m.reg[Slot(ram_read(m, m.pc + 2))])]


handle_and(m) == AluTwo(m, AND)
handle_or(m) == AluTwo(m, OR)
handle_xor(m) == AluTwo(m, XOR)

\* NOT that consumes one operand byte
handle_not_one_operand(m) == AluOne(m, NOT)


handle_not(m) == AluTwo(m, NOT)
handle_shl(m) == AluTwo(m, SHL)
handle_shr(m) == AluTwo(m, SHR)
handle_mul(m) == AluTwo(m, MUL)

\* CMP that ORs the new flag into the flags already set
handle_cmp_accumulates(m) ==
    LET a == Access(m, m.pc + 1)
    IN  IF a.exc # "none" THEN a
        ELSE IF ~InReg(ram_read(m, m.pc + 1)) THEN Raise(a, "IndexError")
        ELSE LET reg_a == m.reg[Slot(ram_read(m, m.pc + 1))]
                 b == Access(a, m.pc + 2)
             IN  IF b.exc # "none" THEN b
                 ELSE IF ~InReg(ram_read(m, m.pc + 2)) THEN Raise(b, "IndexError")
                 ELSE LET reg_b == m.reg[Slot(ram_read(m, m.pc + 2))]
                          flag == IF reg_a = reg_b THEN FL_E
                                  ELSE IF reg_a > reg_b THEN FL_G
                                  ELSE FL_L
                      IN  [b EXCEPT !.fl = BitOr(@, flag), !.pc = @ + 2]

handle_cmp(m) ==
    LET a == Access(m, m.pc + 1)
    IN  IF a.exc # "none" THEN a
        ELSE IF ~InReg(ram_read(m, m.pc + 1)) THEN Raise(a, "IndexError")
        ELSE LET reg_a == m.reg[Slot(ram_read(m, m.pc + 1))]
                 b == Access(a, m.pc + 2)
             IN  IF b.exc # "none" THEN b
                 ELSE IF ~InReg(ram_read(m, m.pc + 2)) THEN Raise(b, "IndexError")
                 ELSE LET reg_b == m.reg[Slot(ram_read(m, m.pc + 2))]
                          flag == IF reg_a = reg_b THEN FL_E
                                  ELSE IF reg_a > reg_b THEN FL_G
                                  ELSE FL_L
                      IN  [b EXCEPT !.fl = flag, !.pc = @ + 2]

(* ------------------------------ programs ------------------------------- *)
\* What load() is given: the integers the lines of the file parse to, in
\* order.  A program is written here as a low part placed at address 0 and
\* a high part placed at address `at`, the lines between them being 0 (NOP).
Ins0(op) == <<op>>
Ins1(op, a) == <<op, a>>
Ins2(op, a, b) == <<op, a, b>>

\* operand bytes used for registers: R0, R1, the stack pointer, and 8 (no register)
RegsA == {0, 1, SP}
RegsB == {0, 1}
NoReg == RegCount
\* a byte that is no opcode
BadOp == CHOOSE b \in {2} : b \notin branchtable

Menu ==
    {Ins0(op) : op \in {NOP, HLT, RET}}
    \cup {Ins1(op, a) : op \in {CALL, JMP, JEQ, JNE, PUSH, POP, PRA, PRN, INC, DEC},
                         a \in RegsA}
    \cup {Ins2(op, a, b) : op \in {LDI, LD, ST, ADD, SUB, AND, OR, XOR, NOT, SHL, SHR,
                                   CMP, MUL},
                           a \in RegsA, b \in RegsB}
    \cup {Ins0(BadOp), Ins1(PUSH, NoReg), Ins2(ADD, 0, NoReg), Ins2(LDI, NoReg, 0)}

\* the values LDI puts in R0 and R1 before the instructions under study
Pairs == {<<5, 5>>, <<7, 3>>, <<2, 9>>, <<0, 255>>, <<255, 1>>}

Prologue(xy) == Ins2(LDI, 0, xy[1]) \o Ins2(LDI, 1, xy[2])

Followers == {Ins0(HLT), Ins1(JMP, 0), Ins1(JEQ, 1), Ins1(JNE, 1), Ins1(PRN, 0),
              Ins1(POP, 0), Ins0(RET), Ins1(INC, 0)}

Zeros(n) == [i \in 1 .. n |-> 0]

Layout(lo, at, hi) == lo \o Zeros(at - Len(lo)) \o hi

\* two registers set, then any instruction and a follower
PairPrograms ==
    {Prologue(xy) \o i \o j : xy \in Pairs, i \in Menu, j \in Followers}

\* two registers set and compared, any instruction, then a conditional jump
ComparePrograms ==
    {Prologue(xy) \o c \o i \o j :
        xy \in Pairs,
        c \in {Ins2(CMP, 0, 1), Ins2(CMP, 1, 0)},
        i \in Menu,
        j \in {Ins1(JEQ, 0), Ins1(JNE, 0)}}

\* two registers set, the stack pointer left at 0xF4 or moved, then four stack
\* instructions
StackOps == {Ins1(op, a) : op \in {PUSH, POP}, a \in RegsA}
StackStarts == {<<>>, Ins2(LDI, SP, 1), Ins2(LDI, SP, 255)}
StackPrograms ==
    {Prologue(<<5, 9>>) \o s \o i \o j \o k \o l :
        s \in StackStarts, i \in StackOps, j \in StackOps, k \in StackOps, l \in StackOps}

\* the first n values of an instruction (what fits below the end of memory)
Truncated(i, n) == IF Len(i) <= n THEN i ELSE SubSeq(i, 1, n)

\* a jump to an instruction placed at one of the last addresses of memory
HighAddrs == {252, 253, 254, 255}
EdgePrograms ==
    {Layout(Ins2(LDI, 0, t) \o Ins1(JMP, 0), t, Truncated(i, RamSize - t)) :
        t \in HighAddrs, i \in Menu}

\* a call of a subroutine placed away from the caller: the subroutine is one
\* instruction and RET, the caller goes on with a follower
SubAddr == CHOOSE a \in {100} : TRUE
CallPrograms ==
    {Layout(Ins2(LDI, 0, SubAddr) \o Ins1(CALL, 0) \o j, SubAddr, Ins0(NOP) \o i \o Ins0(RET)) :
        i \in Menu, j \in Followers}

\* a program of HLT alone, an empty file, a file whose first byte is no opcode,
\* and a jump far below address 0
SinglePrograms ==
    {Ins0(HLT), <<>>, Ins0(BadOp),
     Ins2(LDI, 0, 255) \o Ins2(SUB, 2, 0) \o Ins2(SUB, 2, 0) \o Ins1(JMP, 2)}

Programs ==
    PairPrograms \cup ComparePrograms \cup StackPrograms \cup EdgePrograms
    \cup CallPrograms \cup SinglePrograms

(* ------------------------------- actions ------------------------------- *)
\* CPU.__init__, run at import of ls8.py
Init ==
    /\ ram = [i \in 0 .. RamSize - 1 |-> 0]
    /\ reg = [i \in 0 .. RegCount - 1 |-> IF i = SP THEN InitSP ELSE 0]
    /\ pc = 0
    /\ fl = 0
    /\ ir = 0
    /\ running = FALSE
    /\ out = <<>>
    /\ exc = "none"
    /\ phase = "init"
    /\ acc = {}
    /\ hist = <<>>
    /\ steps = 0

\* CPU.load: the parsed values go to ram[0], ram[1], ...; a missing file ends
\* the process with status 2
load ==
    /\ phase = "init"
    /\ exc = "none"
    /\ \/ \E prog \in Programs :
            /\ ram' = [i \in 0 .. RamSize - 1 |->
                          IF i < Len(prog) THEN prog[i + 1] ELSE ram[i]]
            /\ phase' = "loaded"
            /\ UNCHANGED <<out, exc>>
       \/ /\ out' = Append(out, <<"not found", 0>>)
          /\ exc' = "SystemExit2"
          /\ UNCHANGED <<ram, phase>>
    /\ UNCHANGED <<reg, pc, fl, ir, running, acc, hist, steps>>

\* CPU.run up to its loop
run ==
    /\ phase = "loaded"
    /\ exc = "none"
    /\ running' = TRUE
    /\ phase' = "run"
    /\ UNCHANGED <<ram, reg, pc, fl, ir, out, exc, acc, hist, steps>>

\* the loop of CPU.run is entered for another instruction
Looping == phase = "run" /\ running /\ exc = "none" /\ steps < MaxSteps

\* a post-step that compares with len(self.ram) instead of len(self.ram) - 1
next_pc_wraps_late(p) == IF p >= RamSize THEN 0 ELSE p + 1

\* the post-step of the loop
next_pc(p) == IF p >= RamSize - 1 THEN 0 ELSE p + 1

\* the explored runs keep every register within the model's range
InModel(m) == \A i \in 0 .. RegCount - 1 : -RegLimit <= m.reg[i] /\ m.reg[i] <= RegLimit

\* the instruction about to be executed, as the loop finds it: opcode, address,
\* registers, flags, and the bytes that follow the opcode
Fetched ==
    [ir |-> ram[Cell(pc)], pc |-> pc, reg |-> reg, fl |-> fl,
     ops |-> [k \in 1 .. (IF InRam(pc + 2) THEN 2 ELSE IF InRam(pc + 1) THEN 1 ELSE 0)
                 |-> ram[Cell(pc + k)]]]

Remember(h, e) ==
    IF Len(h) < HistLen THEN Append(h, e) ELSE Append(Tail(h), e)

\* one iteration of the loop whose fetched opcode is op, r being what the
\* handler of op makes of the machine: fetch, dispatch, handler, post-step
Exec(op, r) ==
    /\ InRam(pc)
    /\ ram[Cell(pc)] = op
    /\ InModel(r)
    /\ ir' = op
    /\ ram' = r.ram
    /\ reg' = r.reg
    /\ fl' = r.fl
    /\ running' = r.running
    /\ out' = r.out
    /\ exc' = r.exc
    /\ acc' = r.acc \cup {pc}
    /\ pc' = (IF r.exc = "none" THEN next_pc(r.pc) ELSE r.pc)
    /\ hist' = Remember(hist, Fetched)
    /\ steps' = steps + 1
    /\ UNCHANGED phase

do_nop == Looping /\ Exec(NOP, handle_nop(Machine))
do_hlt == Looping /\ Exec(HLT, handle_hlt(Machine))
do_ret == Looping /\ Exec(RET, handle_ret(Machine))
do_call == Looping /\ Exec(CALL, handle_call(Machine))
do_jmp == Looping /\ Exec(JMP, handle_jmp(Machine))
do_jeq == Looping /\ Exec(JEQ, handle_jeq(Machine))
do_jne == Looping /\ Exec(JNE, handle_jne(Machine))
do_push == Looping /\ Exec(PUSH, handle_push(Machine))
do_pop == Looping /\ Exec(POP, handle_pop(Machine))
do_pra == Looping /\ Exec(PRA, handle_pra(Machine))
do_prn == Looping /\ Exec(PRN, handle_prn(Machine))
do_ldi == Looping /\ Exec(LDI, handle_ldi(Machine))
do_ld == Looping /\ Exec(LD, handle_ld(Machine))
do_st == Looping /\ Exec(ST, handle_st(Machine))
do_inc == Looping /\ Exec(INC, handle_inc(Machine))
do_dec == Looping /\ Exec(DEC, handle_dec(Machine))
do_add == Looping /\ Exec(ADD, handle_add(Machine))
do_sub == Looping /\ Exec(SUB, handle_sub(Machine))
do_and == Looping /\ Exec(AND, handle_and(Machine))
do_or == Looping /\ Exec(OR, handle_or(Machine))
do_xor == Looping /\ Exec(XOR, handle_xor(Machine))
do_not == Looping /\ Exec(NOT, handle_not(Machine))
do_shl == Looping /\ Exec(SHL, handle_shl(Machine))
do_shr == Looping /\ Exec(SHR, handle_shr(Machine))
do_mul == Looping /\ Exec(MUL, handle_mul(Machine))
do_cmp == Looping /\ Exec(CMP, handle_cmp(Machine))

\* an unknown opcode skipped like NOP instead of ending the run
unknown_instruction_skipped ==
    /\ Looping
    /\ InRam(pc)
    /\ ram[Cell(pc)] \notin branchtable
    /\ ir' = ram[Cell(pc)]
    /\ acc' = {pc}
    /\ pc' = next_pc(pc)
    /\ hist' = Remember(hist, Fetched)
    /\ steps' = steps + 1
    /\ UNCHANGED <<ram, reg, fl, running, out, exc, phase>>

\* the fetched value is no key of the branch table: message, sys.exit(1)
unknown_instruction ==
    /\ Looping
    /\ InRam(pc)
    /\ ram[Cell(pc)] \notin branchtable
    /\ ir' = ram[Cell(pc)]
    /\ out' = Append(out, <<"Unknown instruction", ram[Cell(pc)]>>)
    /\ exc' = "SystemExit1"
    /\ acc' = {pc}
    /\ hist' = Remember(hist, Fetched)
    /\ steps' = steps + 1
    /\ UNCHANGED <<ram, reg, pc, fl, running, phase>>

\* the fetch itself indexes outside the list
fetch_fault ==
    /\ Looping
    /\ ~InRam(pc)
    /\ exc' = "IndexError"
    /\ acc' = {pc}
    /\ steps' = steps + 1
    /\ UNCHANGED <<ram, reg, pc, fl, ir, running, out, phase, hist>>

Next ==
    \/ load
    \/ run
    \/ do_nop \/ do_hlt \/ do_ret \/ do_call \/ do_jmp \/ do_jeq \/ do_jne
    \/ do_push \/ do_pop \/ do_pra \/ do_prn \/ do_ldi \/ do_ld \/ do_st
    \/ do_inc \/ do_dec \/ do_add \/ do_sub \/ do_and \/ do_or \/ do_xor
    \/ do_not \/ do_shl \/ do_shr \/ do_mul \/ do_cmp
    \/ unknown_instruction
    \/ fetch_fault

Spec == Init /\ [][Next]_vars

(* ------------------------------ properties ----------------------------- *)
\* the instruction executed last, as fetched, and the one before it
Last == hist[Len(hist)]
Before == hist[Len(hist) - 1]
\* the last fetched instruction ran to the end of the loop body
Completed == phase = "run" /\ exc = "none" /\ Len(hist) >= 1
IsByte(v) == 0 <= v /\ v <= 255

\* operand bytes per opcode (section 6 of the specification, and the amount
\* each handler adds to pc)
OperandCount(op) ==
    IF op \in {NOP, HLT, RET} THEN 0
    ELSE IF op \in {CALL, JMP, JEQ, JNE, PUSH, POP, PRA, PRN, INC, DEC} THEN 1
    ELSE 2

BranchClass == {CALL, RET, JMP, JEQ, JNE}

\* PUSH r directly followed by POP r, both completed, r a register index
PushThenPop(r) ==
    /\ Completed
    /\ Len(hist) >= 2
    /\ Before.ir = PUSH /\ Len(Before.ops) >= 1 /\ Before.ops[1] = r
    /\ Last.ir = POP /\ Len(Last.ops) >= 1 /\ Last.ops[1] = r
    /\ IsByte(Before.reg[r])

\* C1 as stated: for every register index R in 0..7 and byte V in reg[R],
\* PUSH R directly followed by POP R leaves reg[R] = V and the stack pointer
\* at its value before the PUSH.
C1_PushPopEveryRegister ==
    \A r \in 0 .. 7 :
        PushThenPop(r) => reg[r] = Before.reg[r] /\ reg[SP] = Before.reg[SP]

\* C1 amended: the same for every register index R in 0..6, i.e. every
\* register but the stack pointer R7 itself.
C1_PushPopRoundTrip ==
    \A r \in 0 .. 6 :
        PushThenPop(r) => reg[r] = Before.reg[r] /\ reg[SP] = Before.reg[SP]

C1_Witness ==
    /\ PushThenPop(1)
    /\ reg[1] = 9
    /\ Before.reg[SP] = InitSP
    /\ reg[SP] = InitSP

\* C2: CALL r at address p <= 253 with stack pointer s stores p+2 at
\* memory[s-1] and leaves SP = s-1; a later RET that finds SP = s-1 and
\* memory[s-1] = p+2 makes the next fetch address p+2 and SP = s.
C2_CallThenRet ==
    /\ (Completed /\ Last.ir = CALL /\ Last.pc <= 253) =>
          /\ reg[SP] = Last.reg[SP] - 1
          /\ ram[Cell(reg[SP])] = Last.pc + 2
    /\ \A k \in 1 .. Len(hist) - 1 :
          (/\ Completed
           /\ hist[k].ir = CALL /\ hist[k].pc <= 253
           /\ Last.ir = RET
           /\ Last.reg[SP] = hist[k].reg[SP] - 1
           /\ ram[Cell(Last.reg[SP])] = hist[k].pc + 2)
          => pc = hist[k].pc + 2 /\ reg[SP] = hist[k].reg[SP]

C2_Witness ==
    /\ Completed
    /\ Len(hist) >= 3
    /\ hist[Len(hist) - 2].ir = CALL
    /\ hist[Len(hist) - 2].pc = 3
    /\ Last.ir = RET
    /\ Last.reg[SP] = InitSP - 1
    /\ pc = 5
    /\ reg[SP] = InitSP

\* C3: after CALL r with reg[r] = A, a byte, the next opcode is fetched at
\* address A.
C3_CallLandsOnTarget ==
    (/\ Completed
     /\ Last.ir = CALL
     /\ IsByte(Last.reg[Slot(Last.ops[1])]))
    => pc = Last.reg[Slot(Last.ops[1])]

\* a conditional jump completed: its address, target register value and flags
CondJump(op) == Completed /\ Last.ir = op
JumpTarget == Last.reg[Slot(Last.ops[1])]

\* C4 as stated: JEQ r at p with reg[r] = A fetches next at A exactly when
\* FL = 1, JNE exactly when FL is 2 or 4, and in every other case at p+2; after
\* CMP of register values (a, b), JEQ branches only when a = b and JNE only
\* when a # b.
C4_CondJumpAnywhere ==
    /\ CondJump(JEQ) => pc = (IF Last.fl = FL_E THEN JumpTarget ELSE Last.pc + 2)
    /\ CondJump(JNE) => pc = (IF Last.fl \in {FL_G, FL_L} THEN JumpTarget ELSE Last.pc + 2)

\* the operand values of a CMP that ran directly before the last instruction
CmpBefore ==
    /\ Len(hist) >= 2
    /\ Before.ir = CMP
CmpA == Before.reg[Slot(Before.ops[1])]
CmpB == Before.reg[Slot(Before.ops[2])]

\* C4 amended: the same for a jump at an address p <= 253 whose target A is
\* a byte (0..255); at p = 254 the fall-through wraps to 0, and a target
\* above 255 wraps to 0.
C4_CondJump ==
    /\ (CondJump(JEQ) /\ Last.pc <= 253 /\ IsByte(JumpTarget)) =>
          /\ pc = (IF Last.fl = FL_E THEN JumpTarget ELSE Last.pc + 2)
          /\ CmpBefore => pc = (IF CmpA = CmpB THEN JumpTarget ELSE Last.pc + 2)
    /\ (CondJump(JNE) /\ Last.pc <= 253 /\ IsByte(JumpTarget)) =>
          /\ pc = (IF Last.fl \in {FL_G, FL_L} THEN JumpTarget ELSE Last.pc + 2)
          /\ CmpBefore => pc = (IF CmpA # CmpB THEN JumpTarget ELSE Last.pc + 2)

C4_Witness ==
    /\ CondJump(JNE)
    /\ CmpBefore
    /\ CmpA = 7 /\ CmpB = 3
    /\ Last.fl = FL_G
    /\ JumpTarget = 3
    /\ Last.pc = 9
    /\ pc = 3

\* C5: when the fetched byte has no entry in the dispatch table, the run
\* enters the fatal state with exit status 1, registers, memory and flags are
\* as before the fetch, and nothing is fetched or executed afterwards.
C5_UnknownOpcodeIsFatal ==
    [][/\ exc # "SystemExit1"
       /\ (Looping /\ InRam(pc) /\ ram[Cell(pc)] \notin branchtable) =>
              /\ exc' = "SystemExit1"
              /\ UNCHANGED <<reg, ram, fl>>]_vars

C5_Witness ==
    /\ exc = "SystemExit1"
    /\ steps = 3
    /\ reg[0] = 7 /\ reg[1] = 3 /\ reg[SP] = InitSP
    /\ ir = BadOp
    /\ pc = 6

\* C6: HLT ends the run: the HLT step leaves memory, the eight registers and
\* the flags unchanged (SP = 0xF4 when HLT is the first instruction), and no
\* instruction is fetched after it.
C6_HaltIsTerminal ==
    [][/\ ~(phase = "run" /\ ~running)
       /\ (Looping /\ InRam(pc) /\ ram[Cell(pc)] = HLT) =>
              /\ running' = FALSE
              /\ exc' = "none"
              /\ UNCHANGED <<reg, ram, fl>>
              /\ steps = 0 => reg'[SP] = InitSP]_vars

C6_Witness ==
    /\ phase = "run" /\ ~running /\ exc = "none"
    /\ steps = 4
    /\ reg[0] = 6 /\ reg[SP] = InitSP
    /\ fl = 0

\* C7: when the last byte of an executed non-branch instruction lies at
\* address 255 (cell 255, also when the program counter was negative), the
\* post-step leaves the program counter at 0 and the step accessed no
\* address past the end of memory.
C7_WrapAtEndOfMemory ==
    (/\ Completed
     /\ Last.ir \in branchtable \ BranchClass
     /\ Cell(Last.pc + OperandCount(Last.ir)) = 255)
    => pc = 0 /\ \A a \in acc : a <= 255

C7_Witness ==
    /\ Completed
    /\ Last.ir = LDI /\ Last.pc = 253
    /\ reg[1] = 1 /\ reg[0] = 253
    /\ pc = 0

\* C8: at every fetch the program counter is an address in 0..255.
C8_PcInRangeAtFetch ==
    (phase = "run" /\ running /\ exc = "none") => (0 <= pc /\ pc <= 255)

\* C9: every memory read or write of a run uses an address a with
\* 0 <= a < 256.
C9_AccessInRange ==
    \A a \in acc : 0 <= a /\ a < 256

\* C10: a run leaves the Running state only by HLT or by fetching a byte with
\* no dispatch entry; executing a dispatched instruction never fails.
C10_OnlyTwoExits ==
    (phase = "run" /\ exc # "none") => (exc = "SystemExit1" /\ ir \notin branchtable)

\* the register values named by the two operand bytes of instruction e
OperandA(e) == e.reg[Slot(e.ops[1])]
OperandB(e) == e.reg[Slot(e.ops[2])]
\* the flag encoding of the comparison of a with b (section 4.3)
Encoding(a, b) == IF a = b THEN FL_E ELSE IF a > b THEN FL_G ELSE FL_L

\* C11: CMP ra, rb leaves FL at exactly one of 1 (reg[ra] = reg[rb]),
\* 2 (reg[ra] > reg[rb]), 4 (reg[ra] < reg[rb]), never 0 or a combination of
\* bits, and changes no register.
C11_CmpSetsOneFlag ==
    (Completed /\ Last.ir = CMP) =>
        /\ fl \in {FL_E, FL_G, FL_L}
        /\ (fl = FL_E) <=> (OperandA(Last) = OperandB(Last))
        /\ (fl = FL_G) <=> (OperandA(Last) > OperandB(Last))
        /\ (fl = FL_L) <=> (OperandA(Last) < OperandB(Last))
        /\ reg = Last.reg

C11_Witness ==
    /\ Completed
    /\ Last.ir = CMP
    /\ OperandA(Last) = 2 /\ OperandB(Last) = 9
    /\ Last.fl = FL_G
    /\ fl = FL_L
    /\ reg = Last.reg

\* C12: every instruction other than CMP leaves FL unchanged, so JEQ/JNE
\* decide on the most recent CMP whatever ran between that CMP and the jump.
C12_OnlyCmpSetsFlags ==
    /\ (Completed /\ Last.ir # CMP) => fl = Last.fl
    /\ \A k \in 1 .. Len(hist) - 1 :
          (/\ Completed
           /\ hist[k].ir = CMP
           /\ \A j \in k + 1 .. Len(hist) : hist[j].ir # CMP)
          => /\ Last.fl = Encoding(OperandA(hist[k]), OperandB(hist[k]))
             /\ (Last.ir = JEQ /\ Last.pc <= 253 /\ IsByte(JumpTarget)) =>
                   pc = (IF OperandA(hist[k]) = OperandB(hist[k])
                         THEN JumpTarget ELSE Last.pc + 2)
             /\ (Last.ir = JNE /\ Last.pc <= 253 /\ IsByte(JumpTarget)) =>
                   pc = (IF OperandA(hist[k]) # OperandB(hist[k])
                         THEN JumpTarget ELSE Last.pc + 2)

C12_Witness ==
    /\ Completed
    /\ Len(hist) >= 3
    /\ hist[Len(hist) - 2].ir = CMP
    /\ OperandA(hist[Len(hist) - 2]) = 5 /\ OperandB(hist[Len(hist) - 2]) = 5
    /\ Before.ir = DEC
    /\ Last.ir = JEQ /\ Last.pc = 11
    /\ Last.reg[1] = 4
    /\ fl = FL_E
    /\ pc = 5

\* C13: for every byte A in 0..255 held in reg[r], 0 and 255 included, JMP r
\* or a taken JEQ r / JNE r makes the next fetch happen at address A.
C13_JumpLandsOnTarget ==
    (/\ Completed
     /\ \/ Last.ir = JMP
        \/ Last.ir = JEQ /\ Last.fl = FL_E
        \/ Last.ir = JNE /\ Last.fl \in {FL_G, FL_L}
     /\ IsByte(JumpTarget))
    => pc = JumpTarget

C13_Witness ==
    /\ Completed
    /\ Last.ir = JEQ /\ Last.fl = FL_E
    /\ JumpTarget = 255
    /\ pc = 255

\* the opcodes C14 lists: the dispatch table without HLT and the branch class
Sequential == branchtable \ (BranchClass \cup {HLT})

\* C14: a non-branch instruction with N operand bytes, or a JEQ/JNE that is
\* not taken (N = 1), executed at p with p+N+1 <= 255 is followed by a fetch
\* at p+N+1.
C14_NextFetchAfterOperands ==
    (/\ Completed
     /\ \/ Last.ir \in Sequential
        \/ Last.ir = JEQ /\ Last.fl # FL_E
        \/ Last.ir = JNE /\ Last.fl \notin {FL_G, FL_L}
     /\ Last.pc + OperandCount(Last.ir) + 1 <= 255)
    => pc = Last.pc + OperandCount(Last.ir) + 1

C14_Witness ==
    /\ Completed
    /\ Len(hist) >= 2
    /\ Before.ir = NOT /\ Before.pc = 6
    /\ Last.ir = JNE /\ Last.pc = 9 /\ Last.fl = 0
    /\ pc = 11

\* C15: AND ra, rb and OR ra, rb leave reg[ra] equal to what reg[rb] held,
\* XOR ra, rb leaves reg[ra] = 0, whatever reg[ra] held before.
C15_BitwiseFromSourceAlone ==
    /\ (Completed /\ Last.ir \in {AND, OR}) =>
          reg[Slot(Last.ops[1])] = OperandB(Last)
    /\ (Completed /\ Last.ir = XOR) => reg[Slot(Last.ops[1])] = 0

C15_Witness ==
    /\ Completed
    /\ Last.ir = AND
    /\ Last.ops = <<0, 1>>
    /\ OperandA(Last) = 2 /\ OperandB(Last) = 9
    /\ reg[0] = 9

\* 2^k, the doubling stopped once the value is past RegLimit (beyond every
\* register value of the explored runs)
RECURSIVE Doubled(_, _)
Doubled(p, k) == IF k = 0 \/ p > RegLimit THEN p ELSE Doubled(2 * p, k - 1)
Pow2(k) == Doubled(1, k)

\* C16: ADD, SUB, MUL, INC, DEC, SHL and SHR leave the exact integer result
\* in the first operand's register, also when it lies outside 0..255.
C16_ExactIntegerResults ==
    Completed =>
        LET a == OperandA(Last)
            b == OperandB(Last)
            result == reg[Slot(Last.ops[1])]
        IN  /\ Last.ir = INC => result = a + 1
            /\ Last.ir = DEC => result = a - 1
            /\ Last.ir = ADD => result = a + b
            /\ Last.ir = SUB => result = a - b
            /\ Last.ir = MUL => result = a * b
            /\ Last.ir = SHL => result = a * Pow2(b)
            /\ Last.ir = SHR => result = a \div Pow2(b)

C16_Witness ==
    /\ Completed
    /\ Last.ir = INC /\ Last.ops[1] = 0
    /\ OperandA(Last) = 255
    /\ reg[0] = 256

\* C17: every one of the 256 memory cells holds a value in 0..255 in every
\* reachable state, whatever has executed.
C17_MemoryHoldsBytes ==
    \A i \in 0 .. RamSize - 1 : IsByte(ram[i])

\* C18: LD with operand bytes (a, x) leaves the machine exactly as LDI with
\* the same bytes does, reg[a] = x; ST with operand bytes (a, b) leaves
\* reg[a] = reg[b].
C18_LdIsLdi ==
    /\ phase = "run" => handle_ld(Machine) = handle_ldi(Machine)
    /\ (Completed /\ Last.ir \in {LD, LDI}) =>
          /\ reg = [Last.reg EXCEPT ![Slot(Last.ops[1])] = Last.ops[2]]
          /\ fl = Last.fl
          /\ pc = next_pc(Last.pc + 2)
    /\ (Completed /\ Last.ir = ST) =>
          reg = [Last.reg EXCEPT ![Slot(Last.ops[1])] = OperandB(Last)]

C18_Witness ==
    /\ Completed
    /\ Last.ir = LD
    /\ Last.ops = <<0, 1>>
    /\ Last.reg[0] = 2 /\ Last.reg[1] = 9
    /\ reg[0] = 1 /\ reg[1] = 9
    /\ pc = 9

\* C19: a step of the run changes memory only when it executes PUSH or CALL,
\* and then in no cell but the one at the decremented stack pointer, which
\* receives the pushed register value (PUSH) or the return address (CALL).
C19_OnlyPushAndCallWrite ==
    [][phase = "run" =>
        /\ \A i \in 0 .. RamSize - 1 :
              ram'[i] # ram[i] =>
                  /\ InRam(pc)
                  /\ ram[Cell(pc)] \in {PUSH, CALL}
                  /\ reg'[SP] = reg[SP] - 1
                  /\ i = Cell(reg'[SP])
        /\ (InRam(pc) /\ ram[Cell(pc)] = PUSH /\ steps' = steps + 1 /\ exc' = "none") =>
              /\ reg'[SP] = reg[SP] - 1
              /\ ram'[Cell(reg'[SP])] = reg[Slot(ram[Cell(pc + 1)])]
        /\ (InRam(pc) /\ ram[Cell(pc)] = CALL /\ steps' = steps + 1 /\ exc' = "none") =>
              /\ reg'[SP] = reg[SP] - 1
              /\ ram'[Cell(reg'[SP])] = pc + 2]_vars

C19_Witness ==
    /\ Completed
    /\ Len(hist) >= 2
    /\ Before.ir = LDI
    /\ Last.ir = PUSH /\ Last.ops[1] = 1
    /\ Last.reg[1] = 9 /\ Last.reg[SP] = InitSP
    /\ reg[SP] = InitSP - 1
    /\ ram[InitSP - 1] = 9
    /\ ram[InitSP - 2] = 0 /\ ram[InitSP] = 0

\* the last k + j executed instructions are k PUSHes followed by j POPs, all
\* with a register other than R7, and the stack pointer s before the first
\* PUSH has s - k >= 0
PushesThenPops(k, j) ==
    /\ Completed
    /\ k + j <= Len(hist)
    /\ \A i \in 1 .. k :
          LET e == hist[Len(hist) - k - j + i]
          IN  e.ir = PUSH /\ Len(e.ops) >= 1 /\ e.ops[1] \in 0 .. 6
    /\ \A i \in 1 .. j :
          LET e == hist[Len(hist) - j + i]
          IN  e.ir = POP /\ Len(e.ops) >= 1 /\ e.ops[1] \in 0 .. 6
    /\ hist[Len(hist) - k - j + 1].reg[SP] - k >= 0

\* the stack pointer before the first of those PUSHes, and the value pushed
\* by the i-th of them
StackStart(k, j) == hist[Len(hist) - k - j + 1].reg[SP]
Pushed(k, j, i) == OperandA(hist[Len(hist) - k - j + i])

\* C20: after k PUSHes of v1..vk from registers other than R7, starting with
\* stack pointer s >= k, the values lie at memory[s-1] down to memory[s-k];
\* the j-th of the POPs that follow, into a register other than R7, returns
\* v(k-j+1), and after the k-th POP the stack pointer is s again.
C20_StackIsLifo ==
    \A k \in 1 .. HistLen : \A j \in 0 .. k :
        PushesThenPops(k, j) =>
            /\ reg[SP] = StackStart(k, j) - k + j
            /\ j = 0 => \A i \in 1 .. k :
                            ram[Cell(StackStart(k, j) - i)] = Pushed(k, j, i)
            /\ j >= 1 => reg[Slot(Last.ops[1])] = Pushed(k, j, k - j + 1)

C20_Witness ==
    /\ PushesThenPops(2, 2)
    /\ StackStart(2, 2) = InitSP
    /\ Pushed(2, 2, 1) = 5 /\ Pushed(2, 2, 2) = 9
    /\ Before.ops[1] = 0 /\ Last.ops[1] = 1
    /\ reg[0] = 9 /\ reg[1] = 5
    /\ reg[SP] = InitSP

====
